---- MODULE Spec2Model ----
(***************************************************************************)
(* A model of three independent parts of the repository:                   *)
(*                                                                         *)
(*  - docs/scripts/formattedTSDemos.js, the demo transpiler: getFiles,     *)
(*    transpileFile, main and the watch callbacks (specification Spec);    *)
(*  - PickersModalDialog, the slot and prop forwarding of the modal        *)
(*    dialog (specification SpecDialog);                                   *)
(*  - the DateCalendar "day" view as the validation test drives it         *)
(*    (specification SpecCalendar).                                        *)
(*                                                                         *)
(* Paths are sequences of tokens: a token is a piece of a file path that   *)
(* String.replace, String.endsWith and String.includes look for (".tsx",   *)
(* ".js", "pages/premium-themes") or a piece that contains none of them    *)
(* ("a").  <<"a", ".tsx">> is the path "a.tsx" and <<".tsx", ".tsx">> is   *)
(* the path ".tsx.tsx".                                                    *)
(***************************************************************************)
EXTENDS Integers, Sequences, FiniteSets, TLC

\* ------------------------------------------------------------------ bounds

\* The longest path, in tokens.
MaxPathLen == 2
\* The most .tsx files the demo directories hold when main starts.
MaxFiles == 2
\* The latest modification time a file has when main starts.
MaxInitTime == 2
\* The most change notifications the watchers deliver.
MaxChanges == 1
\* The most files the environment removes while the script runs.
MaxUnlinks == 1
\* The most props a `dialog` props object holds.
MaxDialogProps == 1
\* The most "Next month" clicks.
MaxClicks == 3

\* ------------------------------------------------------------------- paths

\* The tokens of the demos' paths, and those of every path.
DemoTok == {"a", ".tsx", "pages/premium-themes"}
Tok == DemoTok \cup {".js"}

SeqsUpTo(S, n) == UNION {[1..k -> S] : k \in 1..n}

\* Every path of the model's file system.
FsPaths == SeqsUpTo(Tok, MaxPathLen)

\* String.prototype.endsWith, on tokens.
EndsWith(p, suffix) ==
  /\ Len(p) >= Len(suffix)
  /\ SubSeq(p, Len(p) - Len(suffix) + 1, Len(p)) = suffix

\* String.prototype.includes, on tokens.
Includes(p, t) == \E i \in 1..Len(p) : p[i] = t

\* String.prototype.indexOf, on tokens: the first place t occurs, 0 if none.
IndexOf(p, t) ==
  IF Includes(p, t) THEN CHOOSE i \in 1..Len(p) : p[i] = t /\ \A j \in 1..(i - 1) : p[j] # t
  ELSE 0

\* String.prototype.replace with a string pattern: only the first occurrence.
ReplaceFirst(p, t, r) ==
  IF IndexOf(p, t) = 0 THEN p ELSE [p EXCEPT ![IndexOf(p, t)] = r]

\* const jsPath = tsxPath.replace('.tsx', '.js');
JsPath(tsxPath) == ReplaceFirst(tsxPath, ".tsx", ".js")

ignoreList == {<<"/pages.ts">>}

\* The test getFiles applies to a regular file.
IsDemo(filePath) ==
  /\ EndsWith(filePath, <<".tsx">>)
  /\ ~\E ignorePath \in ignoreList : EndsWith(filePath, ignorePath)

\* ------------------------------------------------------------ file system

Absent == [exists |-> FALSE, mtimeMs |-> 0]

File(t) == [exists |-> TRUE, mtimeMs |-> t]

\* getFiles over both roots: the regular files that pass IsDemo.
getFiles(fsys) == {p \in DOMAIN fsys : fsys[p].exists /\ IsDemo(p)}

\* ---------------------------------------------------------------- results

Success == 0
Skipped == 1
Failed == 2

VARIABLES
  argv,          \* [watch, disableCache]: the parsed command line
  fs,            \* path -> [exists, mtimeMs]
  clock,         \* the current time: it advances with every edit of a demo
  unlinks,       \* files the environment has removed so far
  mainPc,        \* "init", "batch", "exit1", "returned", "watching"
  tsxFiles,      \* the discovered demos
  batch,         \* demo -> the transpileFile call of the initial batch
  summary,       \* <<>> or <<[successful, skipped, failed]>>: the summary printed
  watchers,      \* the files fse.watchFile has a listener for
  watchCalls,    \* the listener invocations, in the order they were started
  babelConfig,   \* the shared babelConfig object
  mdProps,       \* the props PickersModalDialog is rendered with
  mdElement,     \* <<>> or <<the Dialog element it rendered>>
  calProps,      \* the props of the DateCalendar under test
  calMonth,      \* the displayed month: [year, month]
  calClicks,     \* "Next month" clicks so far
  calDays        \* the rendered day buttons: day -> [date, disabled]

tvars == <<argv, fs, clock, unlinks, mainPc, tsxFiles, batch, summary, watchers,
           watchCalls, babelConfig>>
mdvars == <<mdProps, mdElement>>
calvars == <<calProps, calMonth, calClicks, calDays>>
vars == <<tvars, mdvars, calvars>>

\* ----------------------------------------------------------- transpileFile

\* The plugin entry transpileFile adds for the JSX preview.
JSXPreviewPlugin(tsxPath) ==
  [plugin |-> "docsx/src/modules/utils/babel-plugin-jsx-preview",
   maxLines |-> 16,
   outputFilename |-> tsxPath \o <<".preview">>]

\* const enableJSXPreview = !tsxPath.includes(path.join('pages', 'premium-themes'));
enableJSXPreview(tsxPath) == ~Includes(tsxPath, "pages/premium-themes")

\* transformOptions.plugins, as handed to babel.transformAsync.
TransformPlugins(config, tsxPath) ==
  IF enableJSXPreview(tsxPath)
  THEN config.plugins \o <<JSXPreviewPlugin(tsxPath)>>
  ELSE config.plugins

\* A call of transpileFile up to its first await.  pc names the operation
\* the call awaits: "exists" (fse.exists), "stat" (both fse.stat),
\* "read" (fse.readFile), "transform" (babel.transformAsync), "write"
\* (fse.writeFile); "returned" once its promise is resolved ("rejected" would
\* be a promise that rejects: no step of the model produces one).
\*   result  <<>> while pending, then <<the TranspileResult>>
\*   err     the step console.error reports, "" if none
\*   source  whether readFile has delivered the .tsx source
\*   plugins the plugins the call gave babel
\*   wrote   the paths the call has written
transpileFile(tsxPath, ignoreCache) ==
  [tsxPath |-> tsxPath,
   jsPath |-> JsPath(tsxPath),
   ignoreCache |-> ignoreCache,
   pc |-> IF ~ignoreCache THEN "exists" ELSE "read",
   result |-> <<>>,
   err |-> "",
   source |-> FALSE,
   plugins |-> <<>>,
   wrote |-> {}]

Return(c, r) == [c EXCEPT !.pc = "returned", !.result = <<r>>]

\* The step's error leaves transpileFile: its promise rejects.
CatchPropagates(c, step) == [c EXCEPT !.pc = "rejected", !.err = step]

\* The catch block: log the error, return Failed.
Catch(c, step) == [c EXCEPT !.pc = "returned", !.result = <<Failed>>, !.err = step]

JsIsNewerOrEqual(jsStat, tsxStat) == jsStat.mtimeMs >= tsxStat.mtimeMs

\* jsStat.mtimeMs > tsxStat.mtimeMs
JsIsNewer(jsStat, tsxStat) == jsStat.mtimeMs > tsxStat.mtimeMs

\* What the environment decides when the awaited operation of c completes.
\* exists, stat and readFile depend on the file system alone.  The transform
\* step covers babel.transformAsync and the synchronous code after it up to
\* the call of writeFile: "transform" (Babel rejects), "prop-types" (the
\* transformed code imports prop-types), "inject" (parseFromProgram or inject
\* throws), "format" (resolveConfig or prettier.format throws).  writeFile
\* may be refused before it touches the file ("write") or fail after it
\* truncated it ("write-partial").
Outcomes(c) ==
  CASE c.pc = "transform" -> {"ok", "transform", "prop-types", "inject", "format"}
    [] c.pc = "write" -> {"ok", "write", "write-partial"}
    [] OTHER -> {"ok"}

\* The call after its awaited operation completed with outcome o on fsys.
Resume(c, fsys, config, o) ==
  CASE c.pc = "exists" ->
         IF fsys[c.jsPath].exists THEN [c EXCEPT !.pc = "stat"] ELSE [c EXCEPT !.pc = "read"]
    [] c.pc = "stat" ->
         IF ~fsys[c.jsPath].exists \/ ~fsys[c.tsxPath].exists THEN Catch(c, "stat")
         ELSE IF JsIsNewer(fsys[c.jsPath], fsys[c.tsxPath]) THEN Return(c, Skipped)
         ELSE [c EXCEPT !.pc = "read"]
    [] c.pc = "read" ->
         IF ~fsys[c.tsxPath].exists THEN Catch(c, "read")
         ELSE [c EXCEPT !.pc = "transform", !.source = TRUE,
                        !.plugins = TransformPlugins(config, c.tsxPath)]
    [] c.pc = "transform" ->
         IF o = "ok" THEN [c EXCEPT !.pc = "write"] ELSE Catch(c, o)
    [] c.pc = "write" ->
         IF o = "ok" THEN Return([c EXCEPT !.wrote = {c.jsPath}], Success)
         ELSE IF o = "write-partial" THEN Catch([c EXCEPT !.wrote = {c.jsPath}], "write")
         ELSE Catch(c, "write")
    [] OTHER -> c

\* The file system after that operation, which completes at time now.
FsAfter(c, fsys, o, now) ==
  IF c.pc = "write" /\ o \in {"ok", "write-partial"}
  THEN [fsys EXCEPT ![c.jsPath] = File(now)]
  ELSE fsys

\* transformOptions.plugins.push(...) in place of concat: the spread copy of
\* babelConfig shares its plugins array, so the entry lands in babelConfig.
ConfigAfterPush(c, config) ==
  IF c.pc = "read" /\ enableJSXPreview(c.tsxPath)
  THEN [config EXCEPT !.plugins = Append(config.plugins, JSXPreviewPlugin(c.tsxPath))]
  ELSE config

\* babelConfig after the call's step: transpileFile copies it and never
\* assigns to it.
ConfigAfter(c, config) == config

\* The call's promise is neither resolved ("returned") nor rejected.
Pending(c) == c.pc \notin {"returned", "rejected"}

\* -------------------------------------------------------------------- main

BatchNeverIgnoresCache(args) == FALSE

\* main passes the disable-cache option as ignoreCache.
BatchIgnoreCache(args) == args.disableCache

WatchUsesCache == FALSE

\* The watch listener passes true.
WatchIgnoreCache == TRUE

Count(calls, r) == Cardinality({f \in DOMAIN calls : calls[f].result = <<r>>})

\* A switch whose Skipped case falls through to nothing.
SummaryDropsSkipped(calls) ==
  [successful |-> Count(calls, Success), skipped |-> 0, failed |-> Count(calls, Failed)]

\* The three counters after the forEach over the results.
Summary(calls) ==
  [successful |-> Count(calls, Success),
   skipped |-> Count(calls, Skipped),
   failed |-> Count(calls, Failed)]

\* The exit test before the watch-mode test.
AfterSummaryExitsFirst(args, counters) ==
  IF counters.failed > 0 THEN "exit1" ELSE IF ~args.watch THEN "returned" ELSE "watching"

\* if (!watchMode) { if (failed > 0) process.exit(1); return; }
AfterSummary(args, counters) ==
  IF ~args.watch
  THEN IF counters.failed > 0 THEN "exit1" ELSE "returned"
  ELSE "watching"

\* tsxFiles.forEach(fse.watchFile ...), reached in watch mode only.
WatchersAfter(args, files) == IF args.watch THEN files ELSE {}

\* The listener's comparison: (await transpileFile(...)) === 0
LogsSuccess(result) == result = <<0>>

\* The paths getFiles would take for a demo.
TsxLike == {p \in FsPaths : IsDemo(p)}

\* The demos the directories may hold when the script starts.
DemoPaths == {p \in SeqsUpTo(DemoTok, MaxPathLen) : IsDemo(p)}

\* The state when the script starts: at most MaxFiles demos, each with its
\* modification time, and for each demo its .js target, absent or with a
\* modification time.  Files that belong to no demo are never looked at and
\* are left out; a target that getFiles would take for a demo (".js.tsx",
\* the target of ".tsx.tsx") is absent.
TInit ==
  /\ argv \in [watch : BOOLEAN, disableCache : BOOLEAN]
  /\ \E S \in {T \in SUBSET DemoPaths : Cardinality(T) <= MaxFiles} :
       \E tm \in [S -> 1..MaxInitTime] :
         \E jm \in [{JsPath(p) : p \in S} \ TsxLike -> 0..MaxInitTime] :
           fs = [p \in FsPaths |->
                   IF p \in S THEN File(tm[p])
                   ELSE IF p \in DOMAIN jm /\ jm[p] > 0 THEN File(jm[p])
                   ELSE Absent]
  /\ clock = MaxInitTime + 1
  /\ unlinks = 0
  /\ mainPc = "init"
  /\ tsxFiles = {}
  /\ batch = <<>>
  /\ summary = <<>>
  /\ watchers = {}
  /\ watchCalls = <<>>
  /\ babelConfig = [presets |-> <<"@babel/preset-typescript">>, plugins |-> <<>>]

\* main up to its first await on the batch: discover the demos and start one
\* transpileFile per demo.
MainStart ==
  /\ mainPc = "init"
  /\ tsxFiles' = getFiles(fs)
  /\ batch' = [f \in getFiles(fs) |-> transpileFile(f, BatchIgnoreCache(argv))]
  /\ mainPc' = "batch"
  /\ UNCHANGED <<argv, fs, clock, unlinks, summary, watchers, watchCalls, babelConfig>>
  /\ UNCHANGED <<mdvars, calvars>>

\* The awaited operation of the batch's call for f completes.
BatchStep(f) ==
  /\ mainPc = "batch"
  /\ f \in DOMAIN batch
  /\ Pending(batch[f])
  /\ \E o \in Outcomes(batch[f]) :
       /\ batch' = [batch EXCEPT ![f] = Resume(batch[f], fs, babelConfig, o)]
       /\ fs' = FsAfter(batch[f], fs, o, clock)
       /\ babelConfig' = ConfigAfter(batch[f], babelConfig)
  /\ UNCHANGED <<argv, clock, unlinks, mainPc, tsxFiles, summary, watchers, watchCalls>>
  /\ UNCHANGED <<mdvars, calvars>>

\* Promise.all has resolved: count, print the summary, then exit, return or
\* register the watchers.  The results array is dropped.
MainAfterBatch ==
  /\ mainPc = "batch"
  /\ \A f \in DOMAIN batch : ~Pending(batch[f])
  /\ summary' = <<Summary(batch)>>
  /\ mainPc' = AfterSummary(argv, Summary(batch))
  /\ watchers' = WatchersAfter(argv, tsxFiles)
  /\ batch' = <<>>
  /\ UNCHANGED <<argv, fs, clock, unlinks, tsxFiles, watchCalls, babelConfig>>
  /\ UNCHANGED <<mdvars, calvars>>

\* fs.watchFile reports a change of f's stat: the file was edited (modified)
\* or only accessed or removed.  The listener starts transpileFile.
Change(f, modified) ==
  /\ mainPc = "watching"
  /\ f \in watchers
  /\ Len(watchCalls) < MaxChanges
  /\ fs' = IF modified /\ fs[f].exists THEN [fs EXCEPT ![f] = File(clock + 1)] ELSE fs
  /\ clock' = IF fs' # fs THEN clock + 1 ELSE clock
  /\ watchCalls' = Append(watchCalls,
       [call |-> transpileFile(f, WatchIgnoreCache), cbPc |-> "await", logged |-> FALSE])
  /\ UNCHANGED <<argv, unlinks, mainPc, tsxFiles, batch, summary, watchers, babelConfig>>
  /\ UNCHANGED <<mdvars, calvars>>

\* The awaited operation of the i-th listener's transpileFile completes.
WatchStep(i) ==
  /\ mainPc = "watching"
  /\ i \in 1..Len(watchCalls)
  /\ Pending(watchCalls[i].call)
  /\ \E o \in Outcomes(watchCalls[i].call) :
       /\ watchCalls' = [watchCalls EXCEPT
            ![i].call = Resume(watchCalls[i].call, fs, babelConfig, o)]
       /\ fs' = FsAfter(watchCalls[i].call, fs, o, clock)
       /\ babelConfig' = ConfigAfter(watchCalls[i].call, babelConfig)
  /\ UNCHANGED <<argv, clock, unlinks, mainPc, tsxFiles, batch, summary, watchers>>
  /\ UNCHANGED <<mdvars, calvars>>

\* The i-th listener continues after its await: log 'Success' on result 0.
WatchCallback(i) ==
  /\ mainPc = "watching"
  /\ i \in 1..Len(watchCalls)
  /\ ~Pending(watchCalls[i].call)
  /\ watchCalls[i].cbPc = "await"
  /\ watchCalls' = [watchCalls EXCEPT
       ![i].cbPc = "done", ![i].logged = LogsSuccess(watchCalls[i].call.result)]
  /\ UNCHANGED <<argv, fs, clock, unlinks, mainPc, tsxFiles, batch, summary, watchers,
                 babelConfig>>
  /\ UNCHANGED <<mdvars, calvars>>

\* Every transpileFile call in flight or returned and not yet dropped.
Calls ==
  {batch[f] : f \in DOMAIN batch} \cup {watchCalls[i].call : i \in 1..Len(watchCalls)}

\* The environment removes a file a pending call is about to stat or read
\* (a removal at any other moment is one the script cannot tell from the
\* file's state when it started).
EnvUnlink(p) ==
  /\ unlinks < MaxUnlinks
  /\ fs[p].exists
  /\ \E c \in Calls :
       \/ c.pc = "stat" /\ p \in {c.tsxPath, c.jsPath}
       \/ c.pc = "read" /\ p = c.tsxPath
  /\ fs' = [fs EXCEPT ![p] = Absent]
  /\ unlinks' = unlinks + 1
  /\ UNCHANGED <<argv, clock, mainPc, tsxFiles, batch, summary, watchers, watchCalls,
                 babelConfig>>
  /\ UNCHANGED <<mdvars, calvars>>

TNext ==
  \/ MainStart
  \/ \E f \in FsPaths : BatchStep(f)
  \/ MainAfterBatch
  \/ \E f \in FsPaths, modified \in BOOLEAN : Change(f, modified)
  \/ \E i \in 1..MaxChanges : WatchStep(i)
  \/ \E i \in 1..MaxChanges : WatchCallback(i)
  \/ \E p \in FsPaths : EnvUnlink(p)

MdIdle == mdProps = <<>> /\ mdElement = <<>>
CalIdle == calProps = <<>> /\ calMonth = <<>> /\ calClicks = 0 /\ calDays = <<>>

Init == TInit /\ MdIdle /\ CalIdle

Next == TNext

\* The demo transpiler.
Spec == Init /\ [][Next]_vars

\* ------------------------------------------------------ PickersModalDialog

\* JavaScript's undefined and null; every other value is a string that names
\* where the value comes from.  An optional object is <<>> (undefined) or
\* <<the object>>; an object is a function from its keys to their values.
Undef == "undefined"
Null == "null"

Nullish(x) == x \in {Undef, Null}

\* a ?? b, falling back on undefined alone.
CoalesceUndefinedOnly(a, b) == IF a = Undef THEN b ELSE a

\* a ?? b
Coalesce(a, b) == IF Nullish(a) THEN b ELSE a

\* object?.key
Chain(object, key) == IF object = <<>> THEN Undef ELSE object[1][key]

\* {...a, ...b}: b's keys win.  Spreading undefined adds nothing.
Spread(a, b) == [k \in DOMAIN a \cup DOMAIN b |-> IF k \in DOMAIN b THEN b[k] ELSE a[k]]

\* object?.key where the value is itself an optional object.
ChainObject(object, key) == IF object = <<>> THEN <<>> ELSE object[1][key]

\* What {...object} spreads: nothing for undefined.
OwnProps(object) == IF object = <<>> THEN <<>> ELSE object[1]

\* The element PickersModalDialog returns: the resolved Dialog component with
\* the JSX attributes in their order (open, onClose, the spread of
\* componentsProps?.dialog, then the four resolved props) and its child.
PickersModalDialog(props) ==
  LET Dialog == Coalesce(Coalesce(Chain(props.slots, "dialog"),
                                  Chain(props.components, "Dialog")),
                         "PickersModalDialogRoot")
      Transition == Coalesce(Coalesce(Chain(props.slots, "mobileTransition"),
                                      Chain(props.components, "MobileTransition")),
                             "Fade")
  IN [type |-> Dialog,
      props |->
        Spread(
          Spread([open |-> props.open, onClose |-> props.onDismiss],
                 OwnProps(ChainObject(props.componentsProps, "dialog"))),
          [TransitionComponent |-> Transition,
           TransitionProps |-> Coalesce(Chain(props.slotProps, "mobileTransition"),
                                        Chain(props.componentsProps, "mobileTransition")),
           PaperComponent |-> Coalesce(Chain(props.slots, "mobilePaper"),
                                       Chain(props.components, "MobilePaper")),
           PaperProps |-> Coalesce(Chain(props.slotProps, "mobilePaper"),
                                   Chain(props.componentsProps, "mobilePaper")),
           children |-> "PickersModalDialogContent"])]

\* The props of MuiDialogProps the model tells apart.
DialogKeys ==
  {"open", "onClose", "TransitionComponent", "TransitionProps", "PaperComponent",
   "PaperProps", "fullWidth"}

\* The `dialog` objects a caller passes: undefined, or up to MaxDialogProps
\* props, each with a value of the caller's.
DialogObjects(keys, value) ==
  {<<>>} \cup {<<[k \in K |-> value]>> :
                 K \in {L \in SUBSET keys : Cardinality(L) <= MaxDialogProps}}

OptionalObjects(S) == {<<>>} \cup {<<o>> : o \in S}

\* The props PickersModalDialog is rendered with.
MdPropsSet ==
  [open : {"true", "false"},
   onDismiss : {"onDismiss"},
   components : OptionalObjects(
     [Dialog : {Undef, "components.Dialog"},
      MobilePaper : {Undef, "components.MobilePaper"},
      MobileTransition : {Undef, "components.MobileTransition"}]),
   slots : OptionalObjects(
     [dialog : {Undef, "slots.dialog"},
      mobilePaper : {Undef, "slots.mobilePaper"},
      mobileTransition : {Undef, "slots.mobileTransition"}]),
   componentsProps : OptionalObjects(
     [dialog : DialogObjects(DialogKeys, "componentsProps.dialog"),
      mobilePaper : {Undef, "componentsProps.mobilePaper"},
      mobileTransition : {Undef, "componentsProps.mobileTransition"}]),
   slotProps : OptionalObjects(
     [dialog : DialogObjects({"fullWidth", "open"}, "slotProps.dialog"),
      mobilePaper : {Undef, Null, "slotProps.mobilePaper"},
      mobileTransition : {Undef, Null, "slotProps.mobileTransition"}])]

MdInit == mdProps \in MdPropsSet /\ mdElement = <<>>

TIdle ==
  /\ argv = [watch |-> FALSE, disableCache |-> FALSE]
  /\ fs = [p \in FsPaths |-> Absent]
  /\ clock = MaxInitTime + 1
  /\ unlinks = 0
  /\ mainPc = "init"
  /\ tsxFiles = {}
  /\ batch = <<>>
  /\ summary = <<>>
  /\ watchers = {}
  /\ watchCalls = <<>>
  /\ babelConfig = [presets |-> <<"@babel/preset-typescript">>, plugins |-> <<>>]

\* React renders the component.
RenderDialog ==
  /\ mdElement = <<>>
  /\ mdElement' = <<PickersModalDialog(mdProps)>>
  /\ UNCHANGED <<mdProps, tvars, calvars>>

DialogInit == MdInit /\ TIdle /\ CalIdle

DialogNext == RenderDialog

\* PickersModalDialog, rendered once with each props object.
SpecDialog == DialogInit /\ [][DialogNext]_vars

\* ------------------------------------------------------------ DateCalendar

\* A month, as the date adapter counts: months from 0.
Month(year, month) == [year |-> year, month |-> month]

\* adapter.addMonths(month, 1), to the first day of the next month.
NextMonthOf(m) ==
  IF m.month = 11 THEN Month(m.year + 1, 0) ELSE Month(m.year, m.month + 1)

IsLeapYear(y) == (y % 4 = 0 /\ y % 100 # 0) \/ y % 400 = 0

DaysInMonth(m) ==
  IF m.month = 1 THEN (IF IsLeapYear(m.year) THEN 29 ELSE 28)
  ELSE IF m.month \in {3, 5, 8, 10} THEN 30
  ELSE 31

\* Date validation with one predicate left out.
IsDateDisabledByMonthOnly(props, date) == date.month \in props.disabledMonths

\* Date validation of a day: shouldDisableMonth and shouldDisableYear are
\* asked about the day's date.
IsDateDisabled(props, date) ==
  \/ date.month \in props.disabledMonths
  \/ date.year \in props.disabledYears

\* The day buttons of the displayed month (the days outside it are fillers,
\* not day buttons).
RenderDays(props, m) ==
  [d \in 1..DaysInMonth(m) |->
     [date |-> [year |-> m.year, month |-> m.month, day |-> d],
      disabled |-> IsDateDisabled(props, [year |-> m.year, month |-> m.month, day |-> d])]]

\* The props of the tests and around them: the initial value is the first
\* day of a month of 2017 or 2018; shouldDisableMonth is absent or
\* (date) => getMonth(date) === m; shouldDisableYear is absent or
\* (date) => getYear(date) === y.
CalPropsSet ==
  [initialValue : {Month(y, m) : y \in 2017..2018, m \in 0..11},
   disabledMonths : {{}} \cup {{m} : m \in 0..11},
   disabledYears : {{}} \cup {{y} : y \in 2017..2019}]

CalInit ==
  /\ calProps \in CalPropsSet
  /\ calMonth = calProps.initialValue
  /\ calClicks = 0
  /\ calDays = RenderDays(calProps, calProps.initialValue)

\* fireEvent.click(screen.getByTitle('Next month')); clock.runToLast();
ClickNextMonth ==
  /\ calClicks < MaxClicks
  /\ calClicks' = calClicks + 1
  /\ calMonth' = NextMonthOf(calMonth)
  /\ calDays' = RenderDays(calProps, NextMonthOf(calMonth))
  /\ UNCHANGED <<calProps, tvars, mdvars>>

CalendarInit == CalInit /\ TIdle /\ MdIdle

CalendarNext == ClickNextMonth

\* The DateCalendar of the validation tests, "Next month" clicked.
SpecCalendar == CalendarInit /\ [][CalendarNext]_vars

\* ================================================================ claims

\* The calls that take a step, each as <<the call before, the call after>>.
CallSteps ==
  {<<batch[f], batch'[f]>> : f \in {g \in DOMAIN batch \cap DOMAIN batch' : batch'[g] # batch[g]}}
  \cup {<<watchCalls[i].call, watchCalls'[i].call>> :
          i \in {j \in 1..Len(watchCalls) : watchCalls'[j].call # watchCalls[j].call}}

\* C1: a call of transpileFile returns Skipped if and only if ignoreCache is
\* false and, when it returns, the .js target exists with a modification time
\* strictly greater than the .tsx file's; a call that returns Skipped has not
\* read the .tsx source, has written nothing and leaves the file system as it
\* was.
C1_SkippedIffJsNewer ==
  [][\A st \in CallSteps :
       (Pending(st[1]) /\ ~Pending(st[2])) =>
         /\ (st[2].result = <<Skipped>>) <=>
              /\ ~st[1].ignoreCache
              /\ fs[st[1].jsPath].exists
              /\ fs[st[1].tsxPath].exists
              /\ fs[st[1].jsPath].mtimeMs > fs[st[1].tsxPath].mtimeMs
         /\ (st[2].result = <<Skipped>>) =>
              /\ ~st[2].source
              /\ st[2].wrote = {}
              /\ fs' = fs]_vars

\* A call of the batch has returned Skipped.
C1_Witness == \E f \in DOMAIN batch : batch[f].result = <<Skipped>>

\* C2: with the disable-cache option no call of the initial batch checks the
\* cache or returns Skipped, and the summary's skipped counter is 0.
C2_DisableCacheNeverSkips ==
  argv.disableCache =>
    /\ \A f \in DOMAIN batch :
         /\ batch[f].result # <<Skipped>>
         /\ batch[f].pc \notin {"exists", "stat"}
         /\ batch[f].pc = "returned" => batch[f].result \in {<<Success>>, <<Failed>>}
    /\ summary # <<>> => summary[1].skipped = 0

\* With disable-cache, a call has returned although its .js target is newer
\* than its .tsx file.
C2_Witness ==
  /\ argv.disableCache
  /\ \E f \in DOMAIN batch :
       /\ batch[f].result = <<Failed>>
       /\ batch[f].wrote = {}
       /\ fs[JsPath(f)].exists
       /\ fs[JsPath(f)].mtimeMs > fs[f].mtimeMs

\* The sibling .js file of a .tsx path: the path with its final extension
\* replaced.
SiblingJs(tsxPath) == [tsxPath EXCEPT ![Len(tsxPath)] = ".js"]

\* C3: every call of transpileFile writes no path but the sibling .js file of
\* its .tsx path, and a successful call has written it.
C3_WritesSiblingJs ==
  \A c \in Calls :
    /\ c.wrote \subseteq {SiblingJs(c.tsxPath)}
    /\ c.result = <<Success>> => c.wrote = {SiblingJs(c.tsxPath)}

\* The displayed month after n clicks on "Next month" from month m.
MonthAfter(m, n) ==
  Month((m.year * 12 + m.month + n) \div 12, (m.year * 12 + m.month + n) % 12)

C5_DialogPropsPassedDown ==
  mdElement # <<>> =>
    \A given \in {OwnProps(ChainObject(mdProps.slotProps, "dialog")),
                  OwnProps(ChainObject(mdProps.componentsProps, "dialog"))} :
      \A k \in DOMAIN given :
        /\ k \in DOMAIN mdElement[1].props
        /\ mdElement[1].props[k] = given[k]

\* The value of slot key in the optional object, "undefined" if there is none.
Given(object, key) == IF object = <<>> THEN "undefined" ELSE object[1][key]

Provided(x) == x # "undefined" /\ x # "null"

\* C6: the rendered element's type is slots.dialog, else components.Dialog,
\* else PickersModalDialogRoot; TransitionComponent is slots.mobileTransition,
\* else components.MobileTransition, else Fade; PaperComponent is
\* slots.mobilePaper, else components.MobilePaper; TransitionProps and
\* PaperProps are the slotProps entry unless it is null or undefined, and
\* then the componentsProps entry; componentsProps.dialog changes none of
\* these four, and its open and onClose replace the component's own.
C6_SlotPrecedence ==
  mdElement # <<>> =>
    LET el == mdElement[1]
        dialog == OwnProps(ChainObject(mdProps.componentsProps, "dialog"))
    IN /\ el.type =
            IF Provided(Given(mdProps.slots, "dialog")) THEN "slots.dialog"
            ELSE IF Provided(Given(mdProps.components, "Dialog")) THEN "components.Dialog"
            ELSE "PickersModalDialogRoot"
       /\ el.props.TransitionComponent =
            IF Provided(Given(mdProps.slots, "mobileTransition")) THEN "slots.mobileTransition"
            ELSE IF Provided(Given(mdProps.components, "MobileTransition"))
                 THEN "components.MobileTransition"
            ELSE "Fade"
       /\ el.props.PaperComponent =
            IF Provided(Given(mdProps.slots, "mobilePaper")) THEN "slots.mobilePaper"
            ELSE Given(mdProps.components, "MobilePaper")
       /\ el.props.TransitionProps =
            IF Provided(Given(mdProps.slotProps, "mobileTransition"))
            THEN "slotProps.mobileTransition"
            ELSE Given(mdProps.componentsProps, "mobileTransition")
       /\ el.props.PaperProps =
            IF Provided(Given(mdProps.slotProps, "mobilePaper")) THEN "slotProps.mobilePaper"
            ELSE Given(mdProps.componentsProps, "mobilePaper")
       /\ el.props.open = IF "open" \in DOMAIN dialog THEN dialog.open ELSE mdProps.open
       /\ el.props.onClose =
            IF "onClose" \in DOMAIN dialog THEN dialog.onClose ELSE mdProps.onDismiss

\* slotProps.mobilePaper is null, componentsProps.mobilePaper is given and
\* componentsProps.dialog has its own PaperProps: the element has
\* componentsProps.mobilePaper.
C6_Witness ==
  /\ mdElement # <<>>
  /\ Given(mdProps.slotProps, "mobilePaper") = "null"
  /\ Given(mdProps.componentsProps, "mobilePaper") = "componentsProps.mobilePaper"
  /\ "PaperProps" \in DOMAIN OwnProps(ChainObject(mdProps.componentsProps, "dialog"))
  /\ Given(mdProps.slots, "dialog") = "slots.dialog"
  /\ Given(mdProps.components, "Dialog") = "components.Dialog"
  /\ mdElement[1].props.PaperProps = "componentsProps.mobilePaper"
  /\ mdElement[1].type = "slots.dialog"

\* C7: when the batch is over, main exits with status 1 if and only if watch
\* mode is off and some call returned Failed; with watch mode off and no
\* failure it returns and registers no watcher; with watch mode on it
\* registers a watcher for every discovered file, and it never exits.
C7_ExitOnlyWithoutWatch ==
  [][/\ (mainPc = "batch" /\ mainPc' # "batch") =>
          /\ (mainPc' = "exit1") <=>
               (~argv.watch /\ \E f \in DOMAIN batch : batch[f].result = <<Failed>>)
          /\ (~argv.watch /\ \A f \in DOMAIN batch : batch[f].result # <<Failed>>) =>
               (mainPc' = "returned" /\ watchers' = {})
          /\ argv.watch => (mainPc' = "watching" /\ watchers' = tsxFiles)
     /\ mainPc' = "exit1" => (~argv.watch /\ watchers' = {})
     /\ argv.watch => mainPc' # "exit1"
     /\ (mainPc' # "watching") => watchers' = {}]_vars

\* main has exited with status 1.
C7_Witness == mainPc = "exit1" /\ ~argv.watch /\ summary[1].failed > 0

PreWriteSteps == {"stat", "read", "transform", "prop-types", "inject", "format"}

\* C8: every call of transpileFile ends by returning a TranspileResult, never
\* by rejecting; a failing step makes it return Failed; a step that fails
\* before the write leaves the file system as it was, the call having written
\* nothing; a call returns Success only from the step that completes the
\* write of its .js target.
C8_FailuresReturnFailed ==
  [][\A st \in CallSteps :
       /\ st[2].pc # "rejected"
       /\ st[2].pc = "returned" => st[2].result \in {<<Success>>, <<Skipped>>, <<Failed>>}
       /\ (st[2].err # "" \/ st[2].result = <<Failed>>) =>
            /\ st[2].result = <<Failed>>
            /\ st[2].err \in PreWriteSteps \cup {"write"}
       /\ (st[1].pc = "stat" /\ (~fs[st[1].jsPath].exists \/ ~fs[st[1].tsxPath].exists)) =>
            (st[2].result = <<Failed>> /\ st[2].err = "stat")
       /\ (st[1].pc = "read" /\ ~fs[st[1].tsxPath].exists) =>
            (st[2].result = <<Failed>> /\ st[2].err = "read")
       /\ st[2].err \in PreWriteSteps => (fs' = fs /\ st[2].wrote = {})
       /\ st[1].pc # "write" => fs' = fs
       /\ st[2].result = <<Success>> =>
            /\ st[1].pc = "write"
            /\ st[2].wrote = {st[1].jsPath}
            /\ fs'[st[1].jsPath] = File(clock)]_vars

\* A call has failed in Prettier, and its .js target is still the file it
\* was.
C8_Witness ==
  \E c \in Calls :
    /\ c.result = <<Failed>>
    /\ c.err = "format"
    /\ fs[c.jsPath].exists
    /\ fs[c.jsPath].mtimeMs <= MaxInitTime

\* C9: the summary is printed in a step in which every discovered file has
\* exactly one call, all of them returned; each counter is the number of
\* calls with that result, and the three add up to the number of discovered
\* files.
C9_CountersAddUp ==
  [][(summary = <<>> /\ summary' # <<>>) =>
       /\ DOMAIN batch = tsxFiles
       /\ \A f \in tsxFiles : batch[f].pc = "returned" /\ batch[f].tsxPath = f
       /\ summary'[1].successful = Cardinality({f \in tsxFiles : batch[f].result = <<Success>>})
       /\ summary'[1].skipped = Cardinality({f \in tsxFiles : batch[f].result = <<Skipped>>})
       /\ summary'[1].failed = Cardinality({f \in tsxFiles : batch[f].result = <<Failed>>})
       /\ summary'[1].successful + summary'[1].skipped + summary'[1].failed
            = Cardinality(tsxFiles)]_vars

\* The summary of two files, one transpiled and one failed.
C9_Witness ==
  /\ summary = <<[successful |-> 1, skipped |-> 0, failed |-> 1]>>
  /\ Cardinality(tsxFiles) = 2

\* C10: every listener invocation runs transpileFile on a watched, discovered
\* file with the cache bypassed: the call never checks the cache and never
\* returns Skipped; once the listener is done it has logged 'Success' if and
\* only if the call returned Success; after a Failed call the watchers are
\* all still registered and the script is still watching.
C10_WatchBypassesCache ==
  \A i \in 1..Len(watchCalls) :
    LET w == watchCalls[i] IN
      /\ w.call.tsxPath \in watchers
      /\ w.call.tsxPath \in tsxFiles
      /\ w.call.ignoreCache
      /\ w.call.pc \notin {"exists", "stat"}
      /\ w.call.result # <<Skipped>>
      /\ w.cbPc = "done" => (w.logged <=> w.call.result = <<Success>>)
      /\ w.cbPc # "done" => ~w.logged
      /\ w.call.result = <<Failed>> => (mainPc = "watching" /\ watchers = tsxFiles)

\* A listener is done with a call that failed although the .js target is
\* newer than the .tsx file.
C10_Witness ==
  \E i \in 1..Len(watchCalls) :
    LET w == watchCalls[i] IN
      /\ w.cbPc = "done"
      /\ w.call.result = <<Failed>>
      /\ fs[w.call.jsPath].exists
      /\ fs[w.call.tsxPath].exists
      /\ fs[w.call.jsPath].mtimeMs > fs[w.call.tsxPath].mtimeMs

\* C11: babelConfig is what it was when the script started, its plugins
\* empty, whatever calls of transpileFile have run or are running; a call
\* that has not reached Babel has given it no plugin, and a call that has
\* gave it exactly the JSX-preview plugin with output file
\* '<tsxPath>.preview' when its path does not contain
\* 'pages/premium-themes', and no plugin when it does.
C11_BabelConfigNeverModified ==
  /\ babelConfig = [presets |-> <<"@babel/preset-typescript">>, plugins |-> <<>>]
  /\ \A c \in Calls :
       /\ ~c.source => c.plugins = <<>>
       /\ c.source =>
            c.plugins =
              IF \E i \in 1..Len(c.tsxPath) : c.tsxPath[i] = "pages/premium-themes"
              THEN <<>>
              ELSE <<[plugin |-> "docsx/src/modules/utils/babel-plugin-jsx-preview",
                      maxLines |-> 16,
                      outputFilename |-> c.tsxPath \o <<".preview">>]>>

\* Two calls of the batch have both reached Babel, one for a premium-themes
\* demo with no plugin and one for another demo with the preview plugin.
C11_Witness ==
  \E f, g \in DOMAIN batch :
    /\ f # g
    /\ batch[f].source /\ batch[g].source
    /\ batch[f].plugins = <<>>
    /\ Len(batch[g].plugins) = 1
    /\ babelConfig.plugins = <<>>

====
